---- MODULE Spec2Model ----
(***************************************************************************)
(* IPL dashboard: the scraper service (scraper-service/server.js) with its *)
(* in-memory node-cache, the scrapers it awaits, and the handlers that     *)
(* read and write the cache; the Next.js routes that call the service; the *)
(* SWR cache of the browser and the force-refresh functions of the hooks.  *)
(*                                                                         *)
(* Time is counted in units of 5400 s, so the stdTTL is 1 unit, and it is  *)
(* kept relative: a cache record holds the time it has left, not the time  *)
(* at which it expires, and a tick of the clock shortens every record.     *)
(* The timestamp fields of results and records are payload that no handler *)
(* reads; they are left out of the records here.                           *)
(* A handler is cut at its awaits: the part up to `await scrape...` is one *)
(* action, the continuation after the scrape has settled is another.       *)
(* Beside these: the node-cron task, the conditional GET of the            *)
(* points-table route, the freshness classes of useLiveIPL, one call of    *)
(* navigateWithRetry, of a scraper and of scrapeAll, the timestamps of the *)
(* records (in a specification of their own), the data fetching of         *)
(* SSRDashboard and the status filters of GET /api/matches, each a small   *)
(* machine with a variable of its own.                                     *)
(***************************************************************************)
EXTENDS Integers, Sequences, FiniteSets, Bags, TLC

\* ---- bounds of the model
MaxReq == 2           \* handlers suspended in a scrape at the same time
MaxBusy == 1          \* the same, in the specifications of the whole service and
                      \* of the browser

MaxRows == 1          \* rows of a points table
MaxElapsed == 360     \* seconds the dashboard stays open
MaxRetries == 3       \* config.retries of a call of navigateWithRetry
MaxClock == 6         \* readings of the clock that timestamps are taken from
MaxMatches == 2        \* matches in the schedule GET /api/matches works on
MaxHour == 6           \* the latest hour a request of GET /api/matches arrives at

\* ---- program constants
stdTTL == 1           \* NodeCache stdTTL: 5400 s, in units of 5400 s
LiveFreshBelow == 30      \* dataFreshness.live: seconds
LiveStaleBelow == 120
PointsFreshBelow == 120   \* dataFreshness.points: seconds
PointsStaleBelow == 300
LiveHours == 4     \* route.ts: hoursFromStart <= 4

Data == {"A", "B"}    \* payloads the upstream site can serve
Null == "null"
Datasets == {"schedule", "points"}
Keys == {"schedule-data", "points-table-data", "combined-data"}

VARIABLES
  snapshot,  \* SWR cache of the browser: key -> the data it holds
  fr,        \* the force refresh that runs in the browser: where it is
  useMock,   \* mockDataUtils.shouldUseMockData() of the Next.js server
  cache,     \* node-cache store: key -> [left: time to live left, v: value]
  reqs,      \* bag of handlers suspended at `await scrape...(DEFAULT_CONFIG)`
  sent,      \* the HTTP response the last step sent (NoResp: it sent none)
  started,   \* the startup setTimeout callback has run
  everOk,    \* history: dataset -> a scrape of it has succeeded and was cached
  upstream,  \* what the upstream site can do: [vals: payloads, fails: may fail]
  task,      \* the node-cron task of cron.schedule, and what its jobs have done
  http,      \* GET /api/points-table with if-none-match: the last exchange, and
             \* the response the client holds
  view,      \* useLiveIPL: the clock, the timestamps of the responses it holds
             \* and the memoized dataFreshness
  nav,       \* one call of navigateWithRetry: where it is, what it has done
  clock,     \* timestamps: the time, when each running scrape began, and the
             \* timestamp of the record under each key
  scraper,   \* one call of scrapeSchedule or scrapePointsTable: where it is,
             \* its browser and what it returned
  run,       \* one call of scrapeAll: the scrapers it has called and its results
  ssr,       \* SSRDashboard: its call of getDashboardData and what it renders
  listing    \* GET /api/matches: the schedule it got, its query, its response

vars == <<snapshot, fr, useMock, cache, reqs, sent, started, everOk, upstream,
          task, http, view, nav,
          clock,
          scraper,
          run,
          ssr,
          listing>>

\* ------------------------------------------------------------------ cache
\* node-cache _check: a record whose expiry time is in the past is expired
expired(c, k) == k \in DOMAIN c /\ c[k].left < 0

del(c, k) == [x \in DOMAIN c \ {k} |-> c[x]]

\* cache.set(key, value): stdTTL applies, the record is replaced
set(c, k, v) == [x \in DOMAIN c \cup {k} |->
                   IF x = k THEN [left |-> stdTTL, v |-> v] ELSE c[x]]

\* cache.has(key) / a defined cache.get(key): present and not expired
has(c, k) == k \in DOMAIN c /\ ~expired(c, k)

\* the store after cache.get(key) or cache.has(key): deleteOnExpire is true,
\* so looking at an expired record removes it
afterGet(c, k) == IF expired(c, k) THEN del(c, k) ELSE c

\* the store after the periodic check (checkperiod): every expired record goes
afterCheck(c) == [x \in {k \in DOMAIN c : ~expired(c, k)} |-> c[x]]

flushAll(c) == [x \in {} |-> c[x]]

\* one unit of time passes: every record has one unit less to live
aged(c) == [x \in DOMAIN c |->
              [c[x] EXCEPT !.left = IF c[x].left < 0 THEN c[x].left ELSE c[x].left - 1]]

\* --------------------------------------------------------------- scrapers
\* what one run of a scraper can end with: [ok, data]
Outcomes == {[ok |-> TRUE, data |-> v] : v \in upstream.vals}
            \cup (IF upstream.fails THEN {[ok |-> FALSE, data |-> Null]} ELSE {})

createResult(success, data, error) ==
  [success |-> success, data |-> data, error |-> error, source |-> "scraping"]

\* scrapeSchedule / scrapePointsTable: every failure is caught and returned
scrapeResult(o) == IF o.ok THEN createResult(TRUE, o.data, Null)
                   ELSE createResult(FALSE, Null, "error")

NoRes == [success |-> FALSE, data |-> Null, error |-> Null, source |-> "none"]

scrapeAllBoth(r, pointsResult) ==
  [schedule |-> r.sres, pointsTable |-> pointsResult,
   success |-> (r.sres.success /\ pointsResult.success),
   errors |-> (IF r.sres.success THEN <<>> ELSE <<"schedule">>)
              \o (IF pointsResult.success THEN <<>> ELSE <<"points">>)]

\* scrapeAll's return value
scrapeAllResults(r, pointsResult) ==
  [schedule |-> r.sres, pointsTable |-> pointsResult,
   success |-> (r.sres.success \/ pointsResult.success),
   errors |-> (IF r.sres.success THEN <<>> ELSE <<"schedule">>)
              \o (IF pointsResult.success THEN <<>> ELSE <<"points">>)]

\* ------------------------------------------------------- suspended handlers
\* who sent a request. "direct": a client of the scraper service itself;
\* "poll", "mutate": the SWR fetcher behind a Next.js route, started by a timer or
\* an event, or by mutate(); "fr": apiConfig.forceRefresh or forceRefreshEndpoint
\* behind a Next.js route; "dropped": an SWR request whose response SWR ignores
Tag(type, key) == [type |-> type, key |-> key]
Direct == Tag("direct", "-")
Dropped == Tag("dropped", "-")

cacheKey(op) == CASE op = "schedule" -> "schedule-data"
                  [] op = "points" -> "points-table-data"
                  [] op = "all" -> "combined-data"

\* a handler suspended in its scrape. op: the route ("schedule", "points", "all":
\* the GET handlers; "post": POST /api/scrape; "cron"; "startup"), arg: req.body.type,
\* phase: the scraper that is running, sres: scrapeAll's schedule result,
\* seen: the payload of the record that was in the store when the request for
\* /api/schedule or /api/points-table arrived (and was dropped at the lookup)
Req(op, arg, forced, phase, seen, client) ==
  [op |-> op, arg |-> arg, forced |-> forced, phase |-> phase,
   sres |-> NoRes, seen |-> seen, client |-> client]

InFlight(d) == LET S == {r \in BagToSet(reqs) : r.phase = d}
               IN  BagCardinality([r \in S |-> reqs[r]])

\* SWR keeps one request per key: when mutate() starts a request for a key, the
\* response of the request that is in flight for the key is ignored
superseded(b, client) ==
  IF client.type # "mutate" THEN b
  ELSE LET R == {r \in BagToSet(b) : r.client.key = client.key
                                         /\ r.client.type \in {"poll", "mutate"}}
           rest == [r \in BagToSet(b) \ R |-> b[r]]
       IN  rest (+) BagOfAll(LAMBDA r : [r EXCEPT !.client = Dropped],
                             [r \in R |-> b[r]])

Suspend(r) == /\ BagCardinality(reqs) < MaxReq
              /\ reqs' = superseded(reqs, r.client) (+) SetToBag({r})

Resume(r) == reqs (-) SetToBag({r})

\* --------------------------------------------------------------- responses
NoResp == [op |-> "none", forced |-> FALSE, status |-> 0, success |-> FALSE,
           source |-> "none", warning |-> FALSE, data |-> Null,
           seen |-> {}, client |-> Direct]

Resp(op, forced, client, status, success, source, warning, data, seen) ==
  [op |-> op, forced |-> forced, status |-> status, success |-> success,
   source |-> source, warning |-> warning, data |-> data,
   seen |-> seen, client |-> client]

\* res.json({success: true, data: rec.data, timestamp: rec.timestamp, source})
RecordResp(op, forced, client, rec, source, seen) ==
  Resp(op, forced, client, 200, TRUE, source, source = "stale-cache",
       rec.data, seen)

\* res.json(result) for a result of createResult
ResultResp(op, forced, client, result, seen) ==
  Resp(op, forced, client, 200, result.success, result.source, FALSE,
       result.data, seen)

\* ------------------------------------------ GET /api/schedule, /api/points-table
\* the record a dataset's key holds: {data, timestamp}
dataRecord(result) == [data |-> result.data]

seenAt(c, key) == IF key \in DOMAIN c THEN {c[key].v.data} ELSE {}

\* `if (forceRefresh) cache.del(cacheKey) else cache.get(cacheKey)`: the store after it
afterLookupKeeps(forced, c, key) == afterGet(c, key)

afterLookup(forced, c, key) == IF forced THEN del(c, key) ELSE afterGet(c, key)

\* `if (cachedData) return res.json({... source: 'cache'})` is taken
servesCachedNever(forced, c, key) == FALSE

servesCached(forced, c, key) == ~forced /\ has(c, key)

\* `else if (!forceRefresh) { staleData = cache.get(cacheKey); if (staleData) ...`
servesStale(forced, c, key) == ~forced /\ has(c, key)

\* the handler up to `await scrapeSchedule(DEFAULT_CONFIG)`
GetArrive(op, forced, client) ==
  LET key == cacheKey(op) IN
  /\ UNCHANGED started
  /\ IF servesCached(forced, cache, key)
     THEN /\ sent' = RecordResp(op, forced, client, cache[key].v, "cache",
                                seenAt(cache, key))
          /\ reqs' = superseded(reqs, client)
          /\ UNCHANGED cache
     ELSE /\ cache' = afterLookup(forced, cache, key)
          /\ Suspend(Req(op, "-", forced, op, seenAt(cache, key), client))
          /\ sent' = NoResp

\* the handler after the scrape has settled with outcome o
GetDone(r, o) ==
  LET key == cacheKey(r.op)
      result == scrapeResult(o)
  IN
  /\ r.op \in Datasets
  /\ reqs' = Resume(r)
  /\ UNCHANGED started
  /\ IF result.success
     THEN /\ cache' = set(cache, key, dataRecord(result))
          /\ sent' = ResultResp(r.op, r.forced, r.client, result, r.seen)
     ELSE IF servesStale(r.forced, cache, key)
     THEN /\ sent' = RecordResp(r.op, r.forced, r.client, cache[key].v,
                                "stale-cache", r.seen)
          /\ UNCHANGED cache
     ELSE /\ cache' = IF r.forced THEN cache ELSE afterGet(cache, key)
          /\ sent' = ResultResp(r.op, r.forced, r.client, result, r.seen)

\* ------------------------------------------------------------- scrapeAll
usesScrapeAll(r) == r.op \in {"all", "cron", "startup"} \/ (r.op = "post" /\ r.arg = "all")

\* scrapeAll: `scheduleResult = await scrapeSchedule(config)` has settled;
\* scrapePointsTable starts whatever the schedule result was
AllSchedDone(r, o) ==
  /\ usesScrapeAll(r) /\ r.phase = "schedule"
  /\ reqs' = Resume(r) (+) SetToBag({[r EXCEPT !.sres = scrapeResult(o),
                                             !.phase = "points"]})
  /\ sent' = NoResp
  /\ UNCHANGED <<cache, started>>

combinedRecord(results) ==
  [schedule |-> results.schedule, pointsTable |-> results.pointsTable]

storeAllAlways(c, results) ==
  set(set(set(c, "schedule-data", [data |-> results.schedule.data]),
          "points-table-data", [data |-> results.pointsTable.data]),
      "combined-data", combinedRecord(results))

\* the cache.set calls every caller of scrapeAll makes when result.success
storeAll(c, results) ==
  LET c1 == IF results.schedule.success
            THEN set(c, "schedule-data",
                     [data |-> results.schedule.data])
            ELSE c
      c2 == IF results.pointsTable.success
            THEN set(c1, "points-table-data",
                     [data |-> results.pointsTable.data])
            ELSE c1
  IN  set(c2, "combined-data", combinedRecord(results))

combinedData(v) == [schedule |-> v.schedule, pointsTable |-> v.pointsTable]

\* `cachedData && cachedData.schedule?.success && cachedData.pointsTable?.success`
combinedUsable(c) ==
  /\ has(c, "combined-data")
  /\ c["combined-data"].v.schedule.success
  /\ c["combined-data"].v.pointsTable.success

\* res.json({success: true, ...cachedData, source})
CombinedResp(forced, client, v, source, seen) ==
  Resp("all", forced, client, 200, TRUE, source, source = "stale-cache",
       combinedData(v), seen)

\* res.json(result) for a result of scrapeAll (it has no source field)
ResultsResp(op, forced, client, results, seen) ==
  Resp(op, forced, client, 200, results.success, "none", FALSE,
       combinedData(results), seen)

\* ---------------------------------------------------------- GET /api/all
delAll(c) == del(del(del(c, "combined-data"), "schedule-data"), "points-table-data")

AllArrive(forced, client) ==
  /\ UNCHANGED started
  /\ IF ~forced /\ combinedUsable(cache)
     THEN /\ sent' = CombinedResp(forced, client, cache["combined-data"].v, "cache", {})
          /\ UNCHANGED <<cache, reqs>>
     ELSE /\ cache' = IF forced THEN delAll(cache) ELSE afterGet(cache, "combined-data")
          /\ Suspend(Req("all", "-", forced, "schedule", {}, client))
          /\ sent' = NoResp

AllDone(r, o) ==
  LET results == scrapeAllResults(r, scrapeResult(o)) IN
  /\ r.op = "all" /\ r.phase = "points"
  /\ reqs' = Resume(r)
  /\ UNCHANGED started
  /\ IF results.success
     THEN /\ cache' = storeAll(cache, results)
          /\ sent' = ResultsResp("all", r.forced, r.client, results, r.seen)
     ELSE IF ~r.forced /\ combinedUsable(cache)
     THEN /\ sent' = CombinedResp(r.forced, r.client, cache["combined-data"].v,
                                  "stale-cache", r.seen)
          /\ UNCHANGED cache
     ELSE /\ cache' = IF r.forced THEN cache ELSE afterGet(cache, "combined-data")
          /\ sent' = ResultsResp("all", r.forced, r.client, results, r.seen)

\* ------------------------------------------------------- POST /api/scrape
PostArrive(type, client) ==
  /\ Suspend(Req("post", type, FALSE,
                 IF type = "points" THEN "points" ELSE "schedule", {}, client))
  /\ sent' = NoResp
  /\ UNCHANGED <<cache, started>>

PostDoneClears(r, o) ==
  LET result == scrapeResult(o)
      key == cacheKey(r.arg)
  IN
  /\ r.op = "post" /\ r.arg \in Datasets
  /\ reqs' = Resume(r)
  /\ UNCHANGED started
  /\ sent' = ResultResp("post", FALSE, r.client, result, {})
  /\ IF result.success
     THEN cache' = set(cache, key, dataRecord(result))
     ELSE cache' = del(cache, key)

\* type 'schedule' or 'points': one scraper, cached when it succeeded
PostDone(r, o) ==
  LET result == scrapeResult(o)
      key == cacheKey(r.arg)
  IN
  /\ r.op = "post" /\ r.arg \in Datasets
  /\ reqs' = Resume(r)
  /\ UNCHANGED started
  /\ sent' = ResultResp("post", FALSE, r.client, result, {})
  /\ IF result.success
     THEN cache' = set(cache, key, dataRecord(result))
     ELSE UNCHANGED cache

\* type 'all' (the default)
PostAllDone(r, o) ==
  LET results == scrapeAllResults(r, scrapeResult(o)) IN
  /\ r.op = "post" /\ r.arg = "all" /\ r.phase = "points"
  /\ reqs' = Resume(r)
  /\ UNCHANGED started
  /\ sent' = ResultsResp("post", FALSE, r.client, results, {})
  /\ IF results.success
     THEN cache' = storeAll(cache, results)
     ELSE UNCHANGED cache

\* ------------------------------------------------- cron.schedule, startup
\* node-cron fires the callback on every tick, whether or not the previous
\* callback has returned
CronTick ==
  /\ Suspend(Req("cron", "all", FALSE, "schedule", {}, Direct))
  /\ sent' = NoResp
  /\ UNCHANGED <<cache, started>>

\* the setTimeout callback of app.listen: cache.has on both keys, then scrapeAll
Startup ==
  LET c1 == afterGet(afterGet(cache, "schedule-data"), "points-table-data") IN
  /\ ~started
  /\ started' = TRUE
  /\ cache' = c1
  /\ IF ~has(cache, "schedule-data") \/ ~has(cache, "points-table-data")
     THEN Suspend(Req("startup", "all", FALSE, "schedule", {}, Direct))
     ELSE UNCHANGED reqs
  /\ sent' = NoResp

\* the continuation of the cron callback and of the startup callback
JobDone(r, o) ==
  LET results == scrapeAllResults(r, scrapeResult(o)) IN
  /\ r.op \in {"cron", "startup"} /\ r.phase = "points"
  /\ reqs' = Resume(r)
  /\ sent' = NoResp
  /\ UNCHANGED started
  /\ IF results.success
     THEN cache' = storeAll(cache, results)
     ELSE UNCHANGED cache

\* the task cron.schedule returns: node-cron starts it at once ("scheduled").
\* failed: a scheduled job has ended without a successful result; since: a tick
\* has fired its job after that
Scheduled == [status |-> "scheduled", failed |-> FALSE, since |-> FALSE]

\* a tick of the task fires the callback
fired(t) == [t EXCEPT !.since = t.failed]

taskAfterStops(t, results) ==
  IF results.success THEN t ELSE [t EXCEPT !.status = "stopped", !.failed = TRUE]

\* the callback has returned: a result without success skips the cache.set
\* calls, a throw is caught and logged; nothing stops the task
taskAfter(t, results) ==
  IF results.success THEN t ELSE [t EXCEPT !.failed = TRUE]

\* ----------------------------------------------- clock and cache upkeep
Tick ==
  /\ cache' = aged(cache)
  /\ sent' = NoResp
  /\ UNCHANGED <<reqs, started>>

\* node-cache's checkperiod timer
CheckPeriod ==
  /\ \E k \in DOMAIN cache : expired(cache, k)
  /\ cache' = afterCheck(cache)
  /\ sent' = NoResp
  /\ UNCHANGED <<reqs, started>>

\* POST /api/cache/clear with a key, and without one
ClearResp == Resp("cache/clear", FALSE, Direct, 200, TRUE, "none", FALSE, Null, {})

CacheClear(k) ==
  /\ k \in DOMAIN cache
  /\ cache' = del(cache, k)
  /\ sent' = ClearResp
  /\ UNCHANGED <<reqs, started>>

CacheFlush ==
  /\ DOMAIN cache # {}
  /\ cache' = flushAll(cache)
  /\ sent' = ClearResp
  /\ UNCHANGED <<reqs, started>>

\* ------------------------------------------------------ Next.js routes
\* the SWR keys useLiveIPL subscribes to
kLive == "/api/matches?status=live"
kUpcoming == "/api/matches?status=upcoming&limit=5"
kPoints == "/api/points-table"
kAll == "/api/matches?limit=75"
Subscribed == {kLive, kUpcoming, kPoints, kAll}

Undefined == "undefined"

\* `searchParams.get('status')` of a key (swrKeys.matches leaves 'all' out)
NoFilter == "none"
statusOf(key) == CASE key = kLive -> "live"
                   [] key = kUpcoming -> "upcoming"
                   [] OTHER -> NoFilter

\* mockDataUtils: the static datasets and their selection
getMockDataByStatus(status) ==
  CASE status = "live" -> "mockLiveMatches"
    [] status = "completed" -> "mockCompletedMatches"
    [] OTHER -> "mockUpcomingMatches"

getAllMockData == "allMockData"

Mocks == {"mockLiveMatches", "mockCompletedMatches", "mockUpcomingMatches",
          "allMockData"}

getFallbackAll(statusFilter) == getAllMockData

getFallbackMockData(statusFilter) ==
  IF statusFilter # NoFilter THEN getMockDataByStatus(statusFilter)
  ELSE getAllMockData

\* the scraper route behind the Next.js route of a key
datasetOf(key) == IF key = kPoints THEN "points" ELSE "schedule"

\* `if (!scraperResponse.ok) throw ...; if (!scraperResult.success) throw ...`
\* is passed: the route goes on with the scraper's data
proxyOkByStatus(resp) == resp.status = 200

proxyOk(resp) == resp.status = 200 /\ resp.success

\* what the browser gets from the Next.js route that received resp from the
\* scraper service. /api/points-table and /api/schedule answer 500 when the scraper
\* failed; /api/matches answers with the fallback mock data then
routeBody(client, resp) ==
  IF proxyOk(resp) THEN [ok |-> TRUE, data |-> resp.data]
  ELSE IF client.type \in {"poll", "mutate"} /\ client.key # kPoints
       THEN [ok |-> TRUE, data |-> getFallbackMockData(statusOf(client.key))]
       ELSE [ok |-> FALSE, data |-> Null]

\* ------------------------------------------- conditional GET (ETag, 304)
\* rows of the points table as the scraper service returns them
PointsEntries == [position : 1..2, points : 0..1]
Tables == UNION {[1..n -> PointsEntries] : n \in 0..MaxRows}
SortKeys == {"position", "points"}
Orders == {"asc", "desc"}

\* `comparison < 0` of the comparator of sortedData.sort
before(a, b, sortBy, order) ==
  LET ka == IF sortBy = "points" THEN a.points ELSE a.position
      kb == IF sortBy = "points" THEN b.points ELSE b.position
  IN  IF order = "desc" THEN kb < ka ELSE ka < kb

RECURSIVE insert(_, _, _, _)
insert(s, e, sortBy, order) ==
  IF s = <<>> THEN <<e>>
  ELSE IF before(e, Head(s), sortBy, order) THEN <<e>> \o s
  ELSE <<Head(s)>> \o insert(Tail(s), e, sortBy, order)

\* Array.prototype.sort with the comparator: a stable sort
RECURSIVE sorted(_, _, _)
sorted(s, sortBy, order) ==
  IF s = <<>> THEN <<>>
  ELSE insert(sorted(SubSeq(s, 1, Len(s) - 1), sortBy, order), s[Len(s)],
              sortBy, order)

\* Array.prototype.find: the first row at the position, or undefined (<<>>)
find(s, pos) ==
  LET I == {i \in DOMAIN s : s[i].position = pos} IN
  IF I = {} THEN <<>> ELSE <<s[CHOOSE i \in I : \A j \in I : i <= j]>>

RECURSIVE sumPoints(_)
sumPoints(s) == IF s = <<>> THEN 0 ELSE Head(s).points + sumPoints(Tail(s))

\* Math.round(avgPointsPerTeam * 100) / 100, in hundredths; NaN (<<>>) when
\* the table is empty
averagePointsPerTeam(s) ==
  IF s = <<>> THEN <<>>
  ELSE <<(sumPoints(s) * 200 + Len(s)) \div (2 * Len(s))>>

responseData(table, sortBy, order) ==
  LET sortedData == sorted(table, sortBy, order) IN
  [pointsTable |-> sortedData,
   totalTeams |-> Len(sortedData),
   averagePointsPerTeam |-> averagePointsPerTeam(sortedData),
   topTeam |-> find(sortedData, 1),
   bottomTeam |-> find(sortedData, Len(sortedData)),
   sortedBy |-> sortBy,
   order |-> order]

\* JSON text: the sequence of the members written, each a name with its numbers
\* or its string
Member(k, n, str) == [k |-> k, n |-> n, s |-> str]

RECURSIVE rowNumbers(_)
rowNumbers(s) ==
  IF s = <<>> THEN <<>>
  ELSE <<Head(s).position, Head(s).points>> \o rowNumbers(Tail(s))

stringifyTableOnly(data) ==
  <<Member("pointsTable", rowNumbers(data.pointsTable), "")>>

\* JSON.stringify(responseData): a member whose value is undefined is left out,
\* NaN is written as null
stringify(data) ==
  <<Member("pointsTable", rowNumbers(data.pointsTable), ""),
    Member("totalTeams", <<data.totalTeams>>, ""),
    IF data.averagePointsPerTeam = <<>>
    THEN Member("averagePointsPerTeam", <<>>, "null")
    ELSE Member("averagePointsPerTeam", data.averagePointsPerTeam, "")>>
  \o (IF data.topTeam = <<>> THEN <<>>
      ELSE <<Member("topTeam", rowNumbers(data.topTeam), "")>>)
  \o (IF data.bottomTeam = <<>> THEN <<>>
      ELSE <<Member("bottomTeam", rowNumbers(data.bottomTeam), "")>>)
  \o <<Member("sortedBy", <<>>, data.sortedBy),
       Member("order", <<>>, data.order)>>

\* createHash('md5').update(dataString).digest('hex'): the digest stands for
\* the text it was made of (no two texts of the model share a digest)
md5(dataString) == [hex |-> dataString]

\* the quoted tag
etagOf(data) == [quoted |-> md5(stringify(data))]

\* request.headers.get('if-none-match') of a request without the header
NoToken == [quoted |-> md5(<<>>)]

\* the response of the route: 304 without a body, or 200 with the data
respond(data, clientETag) ==
  LET etag == etagOf(data) IN
  IF clientETag = etag
  THEN [status |-> 304, etag |-> etag, body |-> <<>>]
  ELSE [status |-> 200, etag |-> etag, body |-> <<data>>]

NoHeld == [etag |-> NoToken, body |-> <<>>]
NoExchange == [held |-> NoHeld, was |-> <<>>, data |-> <<>>, token |-> NoToken,
               resp |-> [status |-> 0, etag |-> NoToken, body |-> <<>>]]

\* a client asks for the table; with `conditional` it sends the tag of the
\* response it holds, and it keeps the response it gets when that has a body
ConditionalGet(table, sortBy, order, conditional) ==
  LET data == responseData(table, sortBy, order)
      token == IF conditional THEN http.held.etag ELSE NoToken
      resp == respond(data, token)
  IN  http' = [held |-> IF resp.status = 200
                        THEN [etag |-> resp.etag, body |-> resp.body]
                        ELSE http.held,
               was |-> IF conditional THEN http.held.body ELSE <<>>,
               data |-> <<data>>,
               token |-> token,
               resp |-> resp]

\* ------------------------------------------------ useLiveIPL.dataFreshness
\* `age < a ? 'fresh' : age < b ? 'stale' : 'old'`
freshness(age, freshBelow, staleBelow) ==
  IF age < freshBelow THEN "fresh" ELSE IF age < staleBelow THEN "stale" ELSE "old"

\* the body of the useMemo callback, with Date.now() = now; a response that
\* is missing, or has no timestamp, counts as timestamp 0
dataFreshness(now, liveTimestamp, pointsTimestamp) ==
  [live |-> freshness(now - liveTimestamp, LiveFreshBelow, LiveStaleBelow),
   points |-> freshness(now - pointsTimestamp, PointsFreshBelow, PointsStaleBelow)]

\* the clock, in seconds, starts when the dashboard is mounted, long after the
\* epoch; it is looked at every 30 s
Mount == 2 * PointsStaleBelow
Times == {t \in Mount..Mount + MaxElapsed : t % LiveFreshBelow = 0}

\* the first render: no data yet
Mounted == [now |-> Mount, liveTs |-> 0, pointsTs |-> 0,
            memo |-> dataFreshness(Mount, 0, 0)]

\* time passes; the component may render again, but no dependency of the
\* useMemo has changed, so the callback does not run
ClockAdvance(t) ==
  /\ t \in Times /\ t > view.now
  /\ view' = [view EXCEPT !.now = t]

\* SWR delivers a response for the live matches or for the points table, with
\* the timestamp ts the route gave it; the callback runs when ts is new
memoAfter(v, liveTs, pointsTs) ==
  IF liveTs # v.liveTs \/ pointsTs # v.pointsTs
  THEN dataFreshness(v.now, liveTs, pointsTs) ELSE v.memo

LiveData(ts) ==
  /\ ts \in Times /\ ts <= view.now
  /\ view' = [view EXCEPT !.liveTs = ts, !.memo = memoAfter(view, ts, view.pointsTs)]

PointsData(ts) ==
  /\ ts \in Times /\ ts <= view.now
  /\ view' = [view EXCEPT !.pointsTs = ts, !.memo = memoAfter(view, view.liveTs, ts)]

\* ------------------------------------------------------ navigateWithRetry
\* lib/types.js, in milliseconds
DEFAULT_CONFIG == [timeout |-> 30000, delay |-> 5000, retries |-> 3]

\* time a navigation takes when it settles before the timeout
Quick == {1000, 29000}

\* pc: "idle", "goto" (awaiting the race), "delay" (awaiting the setTimeout of
\* the catch), "returned", "thrown"; left: the local `retries`; attempts: calls
\* of page.goto; failed: attempts that ended in the catch; delays: the waits
\* made; last: how the last race ended; dangling: page.goto calls that lost
\* their race and have not settled; elapsed: time since the call
NotCalled == [config |-> DEFAULT_CONFIG, pc |-> "idle", left |-> 0, attempts |-> 0,
              failed |-> 0, delays |-> <<>>, last |-> "none", dangling |-> 0,
              elapsed |-> 0]

\* `let retries = config.retries; while (retries > 0) { ... page.goto ...`
NavCall(retries) ==
  /\ nav.pc = "idle"
  /\ nav' = [nav EXCEPT !.config.retries = retries,
                        !.left = retries,
                        !.pc = IF retries > 0 THEN "goto" ELSE "returned",
                        !.attempts = IF retries > 0 THEN 1 ELSE 0]

\* page.goto resolves before the timer: `return`
GotoResolves(t) ==
  /\ nav.pc = "goto" /\ t < nav.config.timeout
  /\ nav' = [nav EXCEPT !.pc = "returned", !.last = "resolved",
                        !.elapsed = @ + t]

delayGrowing(n) == n.config.delay * (n.failed + 1)

\* the time the catch waits before the next attempt
delayOf(n) == n.config.delay

\* the catch block: `retries--; if (retries === 0) throw ...; await delay`
catch(n, how, t) ==
  LET left == n.left - 1 IN
  IF left = 0
  THEN [n EXCEPT !.left = left, !.failed = @ + 1, !.last = how,
                 !.elapsed = @ + t, !.pc = "thrown"]
  ELSE [n EXCEPT !.left = left, !.failed = @ + 1, !.last = how,
                 !.elapsed = @ + t, !.pc = "delay",
                 !.delays = Append(@, delayOf(n))]

\* page.goto rejects before the timer
GotoRejects(t) ==
  /\ nav.pc = "goto" /\ t < nav.config.timeout
  /\ nav' = catch(nav, "rejected", t)

\* the timer of the race fires first: the race rejects with 'Navigation
\* timeout', the page.goto goes on by itself
TimerFires ==
  /\ nav.pc = "goto"
  /\ nav' = catch([nav EXCEPT !.dangling = @ + 1], "timeout", nav.config.timeout)

\* `await new Promise(resolve => setTimeout(resolve, config.delay))` is over:
\* the loop goes round, page.goto is called again
DelayDone ==
  /\ nav.pc = "delay"
  /\ nav' = [nav EXCEPT !.pc = "goto", !.attempts = @ + 1,
                        !.elapsed = @ + nav.delays[Len(nav.delays)]]

lateWins(n, ok) ==
  IF ok /\ n.pc \in {"goto", "delay"}
  THEN [n EXCEPT !.dangling = @ - 1, !.pc = "returned"]
  ELSE [n EXCEPT !.dangling = @ - 1]

\* a page.goto that lost its race settles (ok: it resolves): the race it was
\* in has settled already, nobody looks at the outcome
lateSettled(n, ok) == [n EXCEPT !.dangling = @ - 1]

LateSettle(ok) ==
  /\ nav.dangling > 0
  /\ nav' = lateSettled(nav, ok)

\* ------------------------------------- scrapeSchedule / scrapePointsTable
Scrapers == {"scrapeSchedule", "scrapePointsTable"}

\* pc: "idle", "createBrowser", "createPage", "navigate", "selector",
\* "extract", "finally", "returned", "thrown"; browser: "none" (not launched),
\* "open", "closed"; closes: calls of browser.close(); result: what the
\* function returns
NotScraping == [fn |-> "none", pc |-> "idle", browser |-> "none", closes |-> 0,
                result |-> NoRes]

\* `let browser; try { browser = await createBrowser(config);`
ScrapeCall(fn) ==
  /\ scraper.pc = "idle"
  /\ scraper' = [scraper EXCEPT !.fn = fn, !.pc = "createBrowser"]

\* `catch (error) { return createResult(false, null, error); }`: the return
\* waits for the finally block
caught(s, message) ==
  [s EXCEPT !.result = createResult(FALSE, Null, message), !.pc = "finally"]

\* puppeteer.launch resolves with a browser or rejects
CreateBrowser(ok) ==
  /\ scraper.pc = "createBrowser"
  /\ scraper' = IF ok THEN [scraper EXCEPT !.browser = "open", !.pc = "createPage"]
                ELSE caught(scraper, "Failed to launch the browser process")

\* createPage, then `await navigateWithRetry(page, URLS..., config)` is called
CreatePage(ok, retries) ==
  /\ scraper.pc = "createPage"
  /\ IF ok
     THEN /\ scraper' = [scraper EXCEPT !.pc = "navigate"]
          /\ NavCall(retries)
     ELSE /\ scraper' = caught(scraper, "Protocol error (Target.createTarget)")
          /\ UNCHANGED nav

\* navigateWithRetry has returned: scrapePointsTable waits for the selector,
\* scrapeSchedule extracts at once
NavigateReturns ==
  /\ scraper.pc = "navigate" /\ nav.pc = "returned"
  /\ scraper' = [scraper EXCEPT
                   !.pc = IF scraper.fn = "scrapePointsTable" THEN "selector"
                          ELSE "extract"]
  /\ UNCHANGED nav

\* navigateWithRetry has thrown `Failed to navigate to ... after n attempts`
NavigateThrows ==
  /\ scraper.pc = "navigate" /\ nav.pc = "thrown"
  /\ scraper' = caught(scraper, "Failed to navigate")
  /\ UNCHANGED nav

\* `const tableFound = await waitForSelectorSafe(...); if (!tableFound) throw`
Selector(found) ==
  /\ scraper.pc = "selector"
  /\ scraper' = IF found THEN [scraper EXCEPT !.pc = "extract"]
                ELSE caught(scraper, "Points table not found on the page")

\* extractAllMatches / page.evaluate: `return createResult(true, data)`, or
\* the extraction throws
Extract(o) ==
  /\ scraper.pc = "extract"
  /\ scraper' = IF o.ok
                THEN [scraper EXCEPT !.result = createResult(TRUE, o.data, Null),
                                     !.pc = "finally"]
                ELSE caught(scraper, "Evaluation failed")

closeBrowserRethrows(s, closed) ==
  IF s.browser = "none" THEN [s EXCEPT !.pc = "returned"]
  ELSE IF closed THEN [s EXCEPT !.browser = "closed", !.closes = @ + 1,
                                !.pc = "returned"]
  ELSE [s EXCEPT !.closes = @ + 1, !.pc = "thrown"]

\* `finally { await closeBrowser(browser); }`, closeBrowser being
\* `try { if (browser) { await browser.close(); } } catch (error) { log }`:
\* a browser.close() that rejects is logged and the function returns
closeBrowser(s, closed) ==
  IF s.browser = "none" THEN [s EXCEPT !.pc = "returned"]
  ELSE [s EXCEPT !.browser = IF closed THEN "closed" ELSE "open",
                 !.closes = @ + 1, !.pc = "returned"]

Finally(closed) ==
  /\ scraper.pc = "finally"
  /\ scraper' = closeBrowser(scraper, closed)

\* ---------------------------------------------------------------- scrapeAll
\* `const results = {schedule: null, pointsTable: null, success: false, errors: []}`
NoResults == [schedule |-> NoRes, pointsTable |-> NoRes, success |-> FALSE,
              errors |-> <<>>]

\* pc: "idle", "schedule" (awaiting scrapeSchedule), "points" (awaiting
\* scrapePointsTable), "returned"; calls: the scrapers called so far
NotRunning == [pc |-> "idle", calls |-> <<>>, sres |-> NoRes, results |-> NoResults]

\* `const scheduleResult = await scrapeSchedule(config);`
ScrapeAll ==
  /\ run.pc = "idle"
  /\ ScrapeCall("scrapeSchedule")
  /\ run' = [run EXCEPT !.pc = "schedule", !.calls = Append(@, "scrapeSchedule")]

\* scrapeSchedule has returned: `results.schedule = scheduleResult`, an entry
\* in errors when it failed, then `await scrapePointsTable(config)` with a
\* browser and a page of its own
ScheduleSettled ==
  /\ run.pc = "schedule" /\ scraper.pc = "returned"
  /\ run' = [run EXCEPT !.pc = "points", !.sres = scraper.result,
                        !.calls = Append(@, "scrapePointsTable")]
  /\ scraper' = [NotScraping EXCEPT !.fn = "scrapePointsTable",
                                    !.pc = "createBrowser"]
  /\ nav' = NotCalled

\* scrapePointsTable has returned: `results.success = scheduleResult.success
\* || pointsResult.success; return results`
PointsSettled ==
  /\ run.pc = "points" /\ scraper.pc = "returned"
  /\ run' = [run EXCEPT !.pc = "returned",
                        !.results = scrapeAllResults(run, scraper.result)]
  /\ UNCHANGED <<scraper, nav>>

\* ------------------------------------------- server-side data (SSRDashboard)
\* the four fetchers getDashboardData awaits with Promise.all
Parts == {"matches", "liveMatches", "pointsTable", "schedule"}

\* how a fetch of a fetcher can end: a response with response.ok and a JSON
\* body, a rejected fetch, a response that is not ok, a body that is not JSON
Fetched == {[kind |-> "ok", data |-> v] : v \in upstream.vals}
           \cup {[kind |-> k, data |-> Null] : k \in {"network", "status", "json"}}

\* getMatches / getPointsTable / getSchedule: `try { ...; if (!response.ok)
\* throw ...; return await response.json(); } catch { return null; }`
fetcher(f) == IF f.kind = "ok" THEN f.data ELSE Null

\* pc: "idle", "fetching", "returned", "rendered"; parts: what each fetcher
\* has returned ("pending": it has not); result: what getDashboardData
\* returned; page: what SSRDashboard rendered
NoDashboard == [isNull |-> TRUE, matches |-> Null, liveMatches |-> Null,
                pointsTable |-> Null, schedule |-> Null]

NotRendering == [pc |-> "idle", forceRefresh |-> FALSE,
                 parts |-> [p \in Parts |-> "pending"],
                 result |-> NoDashboard, page |-> "none"]

\* `await Promise.all([getMatches('all', forceRefresh), ...])`
GetDashboardData(forceRefresh) ==
  /\ ssr.pc = "idle"
  /\ ssr' = [ssr EXCEPT !.pc = "fetching", !.forceRefresh = forceRefresh]

FetcherSettles(p, f) ==
  /\ ssr.pc = "fetching" /\ ssr.parts[p] = "pending"
  /\ ssr' = [ssr EXCEPT !.parts[p] = fetcher(f)]

\* no fetcher rejects, so Promise.all resolves and the catch is not entered:
\* `return {matches, liveMatches, pointsTable, schedule, lastUpdated}`
dashboardData(parts) ==
  [isNull |-> FALSE, matches |-> parts["matches"],
   liveMatches |-> parts["liveMatches"], pointsTable |-> parts["pointsTable"],
   schedule |-> parts["schedule"]]

DashboardReturns ==
  /\ ssr.pc = "fetching" /\ \A p \in Parts : ssr.parts[p] # "pending"
  /\ ssr' = [ssr EXCEPT !.pc = "returned", !.result = dashboardData(ssr.parts)]

\* SSRDashboard: `if (!dashboardData) return <Failed to Load Dashboard Data>`
Render ==
  /\ ssr.pc = "returned"
  /\ ssr' = [ssr EXCEPT !.pc = "rendered",
                        !.page = IF ssr.result.isNull THEN "failed" ELSE "dashboard"]

\* ------------------------------------------ GET /api/matches: match status
\* a match of the schedule: the hour it starts at, and its verdict
Entries == [dateTime : {1, 3}, verdict : {"", " ", "won"}]

Schedules == UNION {[1..n -> Entries] : n \in 0..MaxMatches}

StatusFilters == {NoFilter, "live", "upcoming", "completed"}

\* String.prototype.trim on the verdicts above
trim(v) == IF v = " " THEN "" ELSE v

\* `!match.verdict || match.verdict.trim() === ''`
noVerdict(m) == m.verdict = "" \/ trim(m.verdict) = ""

\* case 'live': started within the last 4 hours and no verdict yet
isLive(m, now) ==
  LET hoursFromStart == now - m.dateTime
  IN  hoursFromStart >= 0 /\ hoursFromStart <= LiveHours /\ noVerdict(m)

\* case 'upcoming': `matchDate > now` and no verdict
isUpcoming(m, now) == m.dateTime > now /\ noVerdict(m)

\* case 'completed': `match.verdict && match.verdict.trim() !== ''`
isCompleted(m) == m.verdict # "" /\ trim(m.verdict) # ""

\* the switch on statusFilter: any other value filters nothing
hasStatus(m, status, now) ==
  CASE status = "live" -> isLive(m, now)
    [] status = "upcoming" -> isUpcoming(m, now)
    [] status = "completed" -> isCompleted(m)
    [] OTHER -> TRUE

RECURSIVE filterMatches(_, _, _)
filterMatches(ms, status, now) ==
  IF ms = <<>> THEN <<>>
  ELSE (IF hasStatus(Head(ms), status, now) THEN <<Head(ms)>> ELSE <<>>)
       \o filterMatches(Tail(ms), status, now)

\* allMatches.sort: most recent first for 'completed', nearest first
\* otherwise; the sort is stable
RECURSIVE insertMatch(_, _, _)
insertMatch(ms, m, status) ==
  IF ms = <<>> THEN <<m>>
  ELSE IF (IF status = "completed" THEN m.dateTime > Head(ms).dateTime
           ELSE m.dateTime < Head(ms).dateTime)
  THEN <<m>> \o ms
  ELSE <<Head(ms)>> \o insertMatch(Tail(ms), m, status)

RECURSIVE sortMatches(_, _)
sortMatches(ms, status) ==
  IF ms = <<>> THEN <<>>
  ELSE insertMatch(sortMatches(SubSeq(ms, 1, Len(ms) - 1), status),
                   ms[Len(ms)], status)

\* `if (limit && limit > 0) allMatches = allMatches.slice(0, limit)`
sliced(ms, limit) ==
  IF limit > 0 /\ limit < Len(ms) THEN SubSeq(ms, 1, limit) ELSE ms

\* the summary of the response, counted on the matches that are returned
summaryOf(ms, now) ==
  [totalMatches |-> Len(ms),
   completedMatches |-> Len(filterMatches(ms, "completed", now)),
   upcomingMatches |-> Len(SelectSeq(ms, noVerdict)),
   liveMatches |-> Len(filterMatches(ms, "live", now))]

\* pc: "idle", "fetch" (awaiting the fetch from the scraper service),
\* "answered"
NotListed == [pc |-> "idle", schedule |-> <<>>, status |-> NoFilter, limit |-> 0,
              now |-> 0, matches |-> <<>>, summary |-> summaryOf(<<>>, 0)]

\* GET /api/matches?status=...&limit=...: the handler awaits the schedule of
\* the scraper service
MatchesArrive(status, limit) ==
  /\ listing.pc = "idle"
  /\ listing' = [listing EXCEPT !.pc = "fetch", !.status = status,
                                !.limit = limit]

\* the scraper service has answered with the schedule, at hour now: filter by
\* status, sort, slice, count the summary, respond
MatchesDone(schedule, now) ==
  LET allMatches == sliced(sortMatches(filterMatches(schedule, listing.status, now),
                                       listing.status), listing.limit)
  IN  /\ listing.pc = "fetch"
      /\ listing' = [listing EXCEPT !.pc = "answered", !.schedule = schedule,
                                    !.now = now, !.matches = allMatches,
                                    !.summary = summaryOf(allMatches, now)]

\* ------------------------------------------------- force refresh (browser)
ForceRefreshes == {"forceRefreshAll", "usePointsTable.forceRefresh",
                   "forceRefreshEndpoint"}

\* the keys a force refresh clears and revalidates
keysOf(fn) == IF fn = "forceRefreshAll" THEN {kLive, kUpcoming, kPoints}
              ELSE IF fn \in ForceRefreshes THEN {kPoints} ELSE {}

\* the scraper routes a force refresh calls (through the Next.js routes)
endpointsOf(fn) == IF fn = "forceRefreshAll" THEN {"schedule", "points"}
                   ELSE IF fn \in ForceRefreshes THEN {"points"} ELSE {}

NoResult == [success |-> FALSE, error |-> Null, returned |-> FALSE]
Result(success, error) == [success |-> success, error |-> error, returned |-> TRUE]

\* fn: the function that runs; pc: "idle", "clear" (step 1), "server" (step 2),
\* "revalidate" (step 3), "done"; cleared: the keys step 1 has cleared;
\* p2: scraper route -> "-", "pending", "ok", "failed"; p3: key -> "-", "pending", "done"
Idle == [fn |-> "none", pc |-> "idle", cleared |-> {},
         p2 |-> [e \in Datasets |-> "-"], p3 |-> [k \in Subscribed |-> "-"],
         result |-> NoResult]

\* `await Promise.all([... mutate(undefined, false) ...])` has returned
phase1DoneAnyway(f) == TRUE

phase1Done(f) == f.cleared = keysOf(f.fn)

\* `await Promise.all([... apiConfig.forceRefresh(...) ...])` has returned
phase2Done(f) == \A e \in endpointsOf(f.fn) : f.p2[e] = "ok"

phase3Done(f) == \A k \in keysOf(f.fn) : f.p3[k] = "done"

\* the force refresh after the response `body` to its request `client`
frAfter(f, client, body) ==
  IF client.type = "fr" /\ f.pc = "server" /\ f.p2[client.key] = "pending"
  THEN IF body.ok
       THEN LET f1 == [f EXCEPT !.p2[client.key] = "ok"] IN
            IF phase2Done(f1) THEN [f1 EXCEPT !.pc = "revalidate"] ELSE f1
       ELSE [f EXCEPT !.p2[client.key] = "failed", !.pc = "done",
                      !.result = Result(FALSE, "Force refresh failed")]
  ELSE IF client.type = "mutate" /\ f.pc = "revalidate" /\ f.p3[client.key] = "pending"
  THEN LET f1 == [f EXCEPT !.p3[client.key] = "done"] IN
       IF phase3Done(f1) THEN [f1 EXCEPT !.pc = "done", !.result = Result(TRUE, Null)]
       ELSE f1
  ELSE f

\* the SWR cache after the response `body` to the fetcher's request `client`:
\* the fetcher throws when the response is not ok, and the data stays
snapAfter(s, client, body) ==
  IF client.type \in {"poll", "mutate"} /\ body.ok
  THEN [s EXCEPT ![client.key] = body.data] ELSE s

ClientGets(f, client, body) ==
  /\ snapshot' = snapAfter(snapshot, client, body)
  /\ fr' = frAfter(f, client, body)

\* the browser's part of a step of the scraper service: it gets what was sent
Receive(f) ==
  IF sent'.status = 0 THEN snapshot' = snapshot /\ fr' = f
  ELSE ClientGets(f, sent'.client, routeBody(sent'.client, sent'))

\* apiConfig.fetcher(key) through the Next.js route of the key
refreshParamAlways(key) == TRUE

\* `searchParams.get('refresh') === 'true'` of the route, for a URL built by
\* swrKeys: matches() appends status and limit, pointsTable() sort and order;
\* none of the keys has a refresh parameter, and the fetcher adds none
refreshParam(key) == key \notin Subscribed

Fetch(f, client) ==
  IF client.key # kPoints /\ useMock
  THEN /\ ClientGets(f, client,
                     [ok |-> TRUE, data |-> getFallbackMockData(statusOf(client.key))])
       /\ reqs' = superseded(reqs, client)
       /\ sent' = NoResp
       /\ UNCHANGED <<cache, started>>
  ELSE /\ GetArrive(datasetOf(client.key), refreshParam(client.key), client)
       /\ Receive(f)

inFlight(type, key) == \E r \in BagToSet(reqs) : r.client = Tag(type, key)

\* a force refresh is called (one runs at a time)
FRStart(fn) ==
  /\ fr.pc \in {"idle", "done"}
  /\ \A r \in BagToSet(reqs) : r.client.type # "fr"
  /\ fr' = [Idle EXCEPT !.fn = fn, !.pc = "clear"]
  /\ sent' = NoResp
  /\ UNCHANGED <<snapshot, cache, reqs, started>>

\* step 1: mutate(undefined, false) of one key
FRClear(k) ==
  /\ fr.pc = "clear" /\ k \in keysOf(fr.fn) \ fr.cleared
  /\ snapshot' = [snapshot EXCEPT ![k] = Undefined]
  /\ reqs' = superseded(reqs, Tag("mutate", k))
  /\ fr' = [fr EXCEPT !.cleared = @ \cup {k}]
  /\ sent' = NoResp
  /\ UNCHANGED <<cache, started>>

\* step 2: apiConfig.forceRefresh(endpoint), or the POST of forceRefreshEndpoint
FRServer(e) ==
  LET f == [fr EXCEPT !.pc = "server", !.p2[e] = "pending"] IN
  /\ fr.pc \in {"clear", "server"} /\ phase1Done(fr)
  /\ e \in endpointsOf(fr.fn) /\ fr.p2[e] = "-"
  /\ IF fr.fn = "forceRefreshEndpoint"
     THEN PostArrive(e, Tag("fr", e))
     ELSE GetArrive(e, TRUE, Tag("fr", e))
  /\ Receive(f)

\* step 3: mutate() of one key
FRRevalidate(k) ==
  /\ fr.pc = "revalidate" /\ phase2Done(fr)
  /\ k \in keysOf(fr.fn) /\ fr.p3[k] = "-"
  /\ Fetch([fr EXCEPT !.p3[k] = "pending"], Tag("mutate", k))

\* SWR revalidates a key on its timer, on focus or on reconnect; a request that
\* is in flight for the key is joined, not repeated
Poll(k) ==
  /\ ~inFlight("poll", k) /\ ~inFlight("mutate", k)
  /\ Fetch(fr, Tag("poll", k))

\* ------------------------------------------------------------ timestamps
\* now: the next reading of Date; began[op]: the reading when the scrape of the
\* handler `op` that is running began; stamp[k]: the timestamp member of the
\* record under k, 0 when there is no record
Routes == {"schedule", "points", "all", "post", "cron", "startup"}
Unstamped == [now |-> 1, began |-> [op \in Routes |-> 0], stamp |-> [k \in Keys |-> 0]]

\* createResult: `timestamp: new Date().toISOString()`, taken when the scraper
\* returns
resultTimestamp(c, op) == c.now

\* scrapeAll: `timestamp: new Date().toISOString()` of the results object, taken
\* before the first scraper is called
resultsTimestamp(c, op) == c.began[op]

\* the timestamps of the records after a step that has written the keys in
\* `written` with timestamp ts and left the store as cache'
stampsAfter(st, written, ts) ==
  [k \in Keys |-> IF k \notin DOMAIN cache' THEN 0
                  ELSE IF k \in written THEN ts ELSE st[k]]

\* a handler takes a request (or a job starts) at the reading `now`
Began(op) ==
  /\ clock.now < MaxClock
  /\ clock' = [now |-> clock.now + 1,
               began |-> [clock.began EXCEPT ![op] = clock.now],
               stamp |-> stampsAfter(clock.stamp, {}, 0)]

\* the scrape of one dataset has settled: `timestamp: result.timestamp`
Stored(r, o) ==
  /\ clock.now < MaxClock
  /\ clock' = [now |-> clock.now + 1,
               began |-> clock.began,
               stamp |-> stampsAfter(clock.stamp,
                                     IF o.ok THEN {cacheKey(r.phase)} ELSE {},
                                     resultTimestamp(clock, r.op))]

\* scrapeAll has settled: every record written carries result.timestamp
StoredAll(r, o) ==
  LET results == scrapeAllResults(r, scrapeResult(o))
      written == IF ~results.success THEN {}
                 ELSE {"combined-data"}
                      \cup (IF results.schedule.success THEN {"schedule-data"} ELSE {})
                      \cup (IF results.pointsTable.success THEN {"points-table-data"} ELSE {})
  IN  /\ clock.now < MaxClock
      /\ clock' = [now |-> clock.now + 1,
                   began |-> clock.began,
                   stamp |-> stampsAfter(clock.stamp, written,
                                         resultsTimestamp(clock, r.op))]

\* ------------------------------------------------------- specification
\* everOk records that a record of the dataset has been in the store; records
\* come from successful scrapes only
TrackOk == everOk' = [d \in Datasets |-> everOk[d] \/ cacheKey(d) \in DOMAIN cache']

Env == UNCHANGED <<useMock, upstream, task, http, view, nav,
       clock,
       scraper,
       run,
       ssr,
       listing>>

\* a step of the scraper service that no browser takes part in
Alone == UNCHANGED <<snapshot, fr>> /\ Env

InitWith(c, up, mock) ==
  /\ snapshot = [k \in Subscribed |-> Undefined]
  /\ fr = Idle
  /\ useMock = mock
  /\ cache = c
  /\ reqs = EmptyBag
  /\ sent = NoResp
  /\ started = FALSE
  /\ everOk = [d \in Datasets |-> cacheKey(d) \in DOMAIN c]
  /\ upstream = up
  /\ task = Scheduled
  /\ http = NoExchange
  /\ view = Mounted
  /\ nav = NotCalled
  /\ clock = Unstamped
  /\ scraper = NotScraping
  /\ run = NotRunning
  /\ ssr = NotRendering
  /\ listing = NotListed

Empty == [x \in {} |-> x]

\* the routes of one dataset each, called directly
Init == InitWith(Empty, [vals |-> Data, fails |-> TRUE], FALSE)

Next ==
  \/ \E op \in Datasets, forced \in BOOLEAN :
        GetArrive(op, forced, Direct) /\ TrackOk /\ Alone
  \/ \E type \in Datasets : PostArrive(type, Direct) /\ TrackOk /\ Alone
  \/ \E r \in BagToSet(reqs), o \in Outcomes : GetDone(r, o) /\ TrackOk /\ Alone
  \/ \E r \in BagToSet(reqs), o \in Outcomes : PostDone(r, o) /\ TrackOk /\ Alone
  \/ Tick /\ TrackOk /\ Alone
  \/ CheckPeriod /\ TrackOk /\ Alone
  \/ \E k \in Keys : CacheClear(k) /\ TrackOk /\ Alone
  \/ CacheFlush /\ TrackOk /\ Alone

Spec == Init /\ [][Next]_vars

\* the whole scraper service, called directly; the upstream site has one payload
InitService == InitWith(Empty, [vals |-> {"A"}, fails |-> TRUE], FALSE)

Untracked == UNCHANGED everOk /\ Alone

\* a request is taken while fewer than MaxBusy handlers are suspended
Room == BagCardinality(reqs) < MaxBusy

NextService ==
  \/ \E op \in Datasets, forced \in BOOLEAN :
        Room /\ GetArrive(op, forced, Direct) /\ Untracked
  \/ \E forced \in BOOLEAN : Room /\ AllArrive(forced, Direct) /\ Untracked
  \/ \E type \in {"schedule", "points", "all"} : Room /\ PostArrive(type, Direct) /\ Untracked
  \/ Room /\ CronTick /\ Untracked
  \/ Room /\ Startup /\ Untracked
  \/ \E r \in BagToSet(reqs), o \in Outcomes : GetDone(r, o) /\ Untracked
  \/ \E r \in BagToSet(reqs), o \in Outcomes : AllSchedDone(r, o) /\ Untracked
  \/ \E r \in BagToSet(reqs), o \in Outcomes : AllDone(r, o) /\ Untracked
  \/ \E r \in BagToSet(reqs), o \in Outcomes : PostDone(r, o) /\ Untracked
  \/ \E r \in BagToSet(reqs), o \in Outcomes : PostAllDone(r, o) /\ Untracked
  \/ \E r \in BagToSet(reqs), o \in Outcomes : JobDone(r, o) /\ Untracked
  \/ Tick /\ Untracked
  \/ CheckPeriod /\ Untracked
  \/ \E k \in Keys : CacheClear(k) /\ Untracked
  \/ CacheFlush /\ Untracked

SpecService == InitService /\ [][NextService]_vars

\* a browser with the dashboard open, the Next.js routes, the dataset routes
InitRefresh == InitWith(Empty, [vals |-> {"A"}, fails |-> TRUE], FALSE)

Browser == UNCHANGED everOk /\ Env

NextRefresh ==
  \/ \E fn \in ForceRefreshes : FRStart(fn) /\ Browser
  \/ \E k \in Subscribed : FRClear(k) /\ Browser
  \/ \E e \in Datasets : Room /\ FRServer(e) /\ Browser
  \/ \E k \in Subscribed : Room /\ FRRevalidate(k) /\ Browser
  \/ \E k \in Subscribed : Room /\ Poll(k) /\ Browser
  \/ \E r \in BagToSet(reqs), o \in Outcomes : GetDone(r, o) /\ Receive(fr) /\ Browser
  \/ \E r \in BagToSet(reqs), o \in Outcomes : PostDone(r, o) /\ Receive(fr) /\ Browser
  \/ CacheFlush /\ Untracked

SpecRefresh == InitRefresh /\ [][NextRefresh]_vars

\* the points table from end to end: the store holds the record A, the browser
\* shows it, the upstream site now serves B and does not fail
PointsA == set(Empty, "points-table-data", [data |-> "A"])

InitE2E ==
  /\ snapshot = [k \in Subscribed |-> IF k = kPoints THEN "A" ELSE Undefined]
  /\ fr = Idle
  /\ useMock = FALSE
  /\ cache = PointsA
  /\ reqs = EmptyBag
  /\ sent = NoResp
  /\ started = TRUE
  /\ everOk = [d \in Datasets |-> d = "points"]
  /\ upstream = [vals |-> {"B"}, fails |-> FALSE]
  /\ task = Scheduled
  /\ http = NoExchange
  /\ view = Mounted
  /\ nav = NotCalled
  /\ clock = Unstamped
  /\ scraper = NotScraping
  /\ run = NotRunning
  /\ ssr = NotRendering
  /\ listing = NotListed

NextE2E ==
  \/ FRStart("usePointsTable.forceRefresh") /\ Browser
  \/ \E k \in Subscribed : FRClear(k) /\ Browser
  \/ \E e \in Datasets : Room /\ FRServer(e) /\ Browser
  \/ \E k \in Subscribed : Room /\ FRRevalidate(k) /\ Browser
  \/ \E k \in Subscribed : Room /\ Poll(k) /\ Browser
  \/ \E op \in Datasets : Room /\ GetArrive(op, FALSE, Direct) /\ Untracked
  \/ \E r \in BagToSet(reqs), o \in Outcomes : GetDone(r, o) /\ Receive(fr) /\ Browser
  \/ Tick /\ Untracked
  \/ CheckPeriod /\ Untracked

SpecE2E == InitE2E /\ [][NextE2E]_vars

\* the scheduled job alone: the cron task, the scrapes of its jobs, the clock
InitCron == InitWith(Empty, [vals |-> {"A"}, fails |-> TRUE], FALSE)

Jobs == UNCHANGED <<snapshot, fr, everOk, useMock, upstream, http, view, nav,
       clock,
       scraper,
       run,
       ssr,
       listing>>

NextCron ==
  \/ task.status = "scheduled" /\ CronTick /\ task' = fired(task) /\ Jobs
  \/ \E r \in BagToSet(reqs), o \in Outcomes :
        AllSchedDone(r, o) /\ UNCHANGED task /\ Jobs
  \/ \E r \in BagToSet(reqs), o \in Outcomes :
        /\ JobDone(r, o)
        /\ task' = taskAfter(task, scrapeAllResults(r, scrapeResult(o)))
        /\ Jobs
  \/ Tick /\ UNCHANGED task /\ Jobs
  \/ CheckPeriod /\ UNCHANGED task /\ Jobs

SpecCron == InitCron /\ [][NextCron]_vars

\* the dashboard's reads through the Next.js routes, with the server in mock
\* mode (USE_MOCK_DATA or NODE_ENV=development) or not
InitMatches ==
  \E mock \in BOOLEAN : InitWith(Empty, [vals |-> {"A"}, fails |-> TRUE], mock)

NextMatches ==
  \/ \E k \in Subscribed : Room /\ Poll(k) /\ Browser
  \/ \E r \in BagToSet(reqs), o \in Outcomes : GetDone(r, o) /\ Receive(fr) /\ Browser
  \/ Tick /\ Untracked
  \/ CheckPeriod /\ Untracked

SpecMatches == InitMatches /\ [][NextMatches]_vars

\* the points-table route alone, asked again and again by one client
InitETag == InitWith(Empty, [vals |-> {"A"}, fails |-> TRUE], FALSE)

NextETag ==
  \E table \in Tables, sortBy \in SortKeys, order \in Orders, conditional \in BOOLEAN :
     /\ ConditionalGet(table, sortBy, order, conditional)
     /\ UNCHANGED <<snapshot, fr, useMock, cache, reqs, sent, started, everOk,
                    upstream, task, view, nav,
       clock,
       scraper,
       run,
       ssr,
       listing>>

SpecETag == InitETag /\ [][NextETag]_vars

\* the dashboard's freshness badge: the clock and the responses that arrive
InitView == InitWith(Empty, [vals |-> {"A"}, fails |-> TRUE], FALSE)

Badge == UNCHANGED <<snapshot, fr, useMock, cache, reqs, sent, started, everOk,
                     upstream, task, http, nav,
       clock,
       scraper,
       run,
       ssr,
       listing>>

NextView ==
  \/ \E t \in Times : ClockAdvance(t) /\ Badge
  \/ \E ts \in Times : LiveData(ts) /\ Badge
  \/ \E ts \in Times : PointsData(ts) /\ Badge

SpecView == InitView /\ [][NextView]_vars

\* one call of navigateWithRetry, with config.retries from 0 to MaxRetries
InitNav == InitWith(Empty, [vals |-> {"A"}, fails |-> TRUE], FALSE)

Page == UNCHANGED <<snapshot, fr, useMock, cache, reqs, sent, started, everOk,
                    upstream, task, http, view,
       clock,
       scraper,
       run,
       ssr,
       listing>>

NextNav ==
  \/ \E retries \in 0..MaxRetries : NavCall(retries) /\ Page
  \/ \E t \in Quick : GotoResolves(t) /\ Page
  \/ \E t \in Quick : GotoRejects(t) /\ Page
  \/ TimerFires /\ Page
  \/ DelayDone /\ Page
  \/ \E ok \in BOOLEAN : LateSettle(ok) /\ Page

SpecNav == InitNav /\ [][NextNav]_vars

\* timers fire and navigations settle: no step of the call waits for ever
SpecNavFair == SpecNav /\ WF_vars(NextNav)

\* one call of a scraper, with the navigateWithRetry it awaits
InitScrape == InitWith(Empty, [vals |-> {"A"}, fails |-> TRUE], FALSE)

Site == UNCHANGED <<snapshot, fr, useMock, cache, reqs, sent, started, everOk,
                    upstream, task, http, view, clock,
       run,
       ssr,
       listing>>

NextScrape ==
  \/ \E fn \in Scrapers : ScrapeCall(fn) /\ Site /\ UNCHANGED nav
  \/ \E ok \in BOOLEAN : CreateBrowser(ok) /\ Site /\ UNCHANGED nav
  \/ \E ok \in BOOLEAN, retries \in 0..MaxRetries : CreatePage(ok, retries) /\ Site
  \/ \E t \in Quick : GotoResolves(t) /\ Page
  \/ \E t \in Quick : GotoRejects(t) /\ Page
  \/ TimerFires /\ Page
  \/ DelayDone /\ Page
  \/ \E ok \in BOOLEAN : LateSettle(ok) /\ Page
  \/ NavigateReturns /\ Site
  \/ NavigateThrows /\ Site
  \/ \E found \in BOOLEAN : Selector(found) /\ Site /\ UNCHANGED nav
  \/ \E o \in Outcomes : Extract(o) /\ Site /\ UNCHANGED nav
  \/ \E closed \in BOOLEAN : Finally(closed) /\ Site /\ UNCHANGED nav

SpecScrape == InitScrape /\ [][NextScrape]_vars

\* one call of scrapeAll, with the two scrapers it awaits one after the other
InitAll == InitWith(Empty, [vals |-> {"A"}, fails |-> TRUE], FALSE)

Rest == UNCHANGED <<snapshot, fr, useMock, cache, reqs, sent, started, everOk,
                    upstream, task, http, view, clock,
       ssr,
       listing>>

NextAll ==
  \/ ScrapeAll /\ Rest /\ UNCHANGED nav
  \/ \E ok \in BOOLEAN : CreateBrowser(ok) /\ Site /\ UNCHANGED nav
  \/ \E ok \in BOOLEAN, retries \in 0..MaxRetries : CreatePage(ok, retries) /\ Site
  \/ \E t \in Quick : GotoResolves(t) /\ Page
  \/ \E t \in Quick : GotoRejects(t) /\ Page
  \/ TimerFires /\ Page
  \/ DelayDone /\ Page
  \/ \E ok \in BOOLEAN : LateSettle(ok) /\ Page
  \/ NavigateReturns /\ Site
  \/ NavigateThrows /\ Site
  \/ \E found \in BOOLEAN : Selector(found) /\ Site /\ UNCHANGED nav
  \/ \E o \in Outcomes : Extract(o) /\ Site /\ UNCHANGED nav
  \/ \E closed \in BOOLEAN : Finally(closed) /\ Site /\ UNCHANGED nav
  \/ ScheduleSettled /\ Rest
  \/ PointsSettled /\ Rest

SpecAll == InitAll /\ [][NextAll]_vars

\* one render of SSRDashboard
InitSSR == InitWith(Empty, [vals |-> {"A"}, fails |-> TRUE], FALSE)

Server == UNCHANGED <<snapshot, fr, useMock, cache, reqs, sent, started, everOk,
                      upstream, task, http, view, clock,
       listing>>
          /\ UNCHANGED <<nav, scraper, run>>

NextSSR ==
  \/ \E forceRefresh \in BOOLEAN : GetDashboardData(forceRefresh) /\ Server
  \/ \E p \in Parts, f \in Fetched : FetcherSettles(p, f) /\ Server
  \/ DashboardReturns /\ Server
  \/ Render /\ Server

SpecSSR == InitSSR /\ [][NextSSR]_vars

\* one request of GET /api/matches, on any schedule and at any hour
InitList == InitWith(Empty, [vals |-> {"A"}, fails |-> TRUE], FALSE)

Route == UNCHANGED <<snapshot, fr, useMock, cache, reqs, sent, started, everOk,
                     upstream, task, http, view, clock>>
         /\ UNCHANGED <<nav, scraper, run, ssr>>

NextList ==
  \/ \E status \in StatusFilters, limit \in 0..1 :
        MatchesArrive(status, limit) /\ Route
  \/ \E schedule \in Schedules, now \in 0..MaxHour :
        MatchesDone(schedule, now) /\ Route

SpecList == InitList /\ [][NextList]_vars

\* the scraper service with the timestamps of its records: reads, manual
\* scrapes and scheduled jobs of the schedule, one of each route at a time
InitStamps == InitWith(Empty, [vals |-> {"A"}, fails |-> TRUE], FALSE)

Timed == UNCHANGED <<snapshot, fr, everOk, useMock, upstream, task, http, view, nav,
       scraper,
       run,
       ssr,
       listing>>

Free(op) == \A r \in BagToSet(reqs) : r.op # op

NextStamps ==
  \/ \E forced \in BOOLEAN :
        Free("schedule") /\ GetArrive("schedule", forced, Direct) /\ Began("schedule") /\ Timed
  \/ Free("post") /\ PostArrive("schedule", Direct) /\ Began("post") /\ Timed
  \/ Free("cron") /\ CronTick /\ Began("cron") /\ Timed
  \/ \E r \in BagToSet(reqs), o \in Outcomes : GetDone(r, o) /\ Stored(r, o) /\ Timed
  \/ \E r \in BagToSet(reqs), o \in Outcomes : PostDone(r, o) /\ Stored(r, o) /\ Timed
  \/ \E r \in BagToSet(reqs), o \in Outcomes :
        AllSchedDone(r, o) /\ UNCHANGED clock /\ Timed
  \/ \E r \in BagToSet(reqs), o \in Outcomes : JobDone(r, o) /\ StoredAll(r, o) /\ Timed

SpecStamps == InitStamps /\ [][NextStamps]_vars

\* ------------------------------------------------------------ properties
\* the response in `sent` answers a GET of /api/schedule or /api/points-table
IsRead(resp) == resp.status # 0 /\ resp.op \in Datasets

\* the handler that answered had scraped, and the scrape had failed
ScrapeFailed(resp) == resp.source = "stale-cache" \/ ~resp.success

\* the step starts a handler like r: one more of them is suspended after it
Starts(r) == CopiesIn(r, reqs') > CopiesIn(r, reqs)

\* the store holds the record A of the points table
HoldsA == "points-table-data" \in DOMAIN cache
          /\ cache["points-table-data"].v.data = "A"

\* C1: for every dataset, at every moment, the number of upstream scrapes in
\* flight is 0 or 1, whatever requests and jobs interleave (stampede protection)
C1_OneScrapeInFlight == \A d \in Datasets : InFlight(d) <= 1

\* C2: a non-forced read whose scrape fails while a record of the key exists,
\* even an expired one, answers with that record's payload, source "stale-cache"
\* and a warning, and with no error
C2_StaleBeforeError ==
  (IsRead(sent) /\ ~sent.forced /\ ScrapeFailed(sent) /\ sent.seen # {})
    => /\ sent.success
       /\ sent.source = "stale-cache"
       /\ sent.warning
       /\ sent.data \in sent.seen

\* C3: once a dataset has been fetched successfully, every later read of it
\* returns data and never a hard error (success: false)
C3_NoErrorAfterSuccess ==
  \A d \in Datasets : (everOk[d] /\ IsRead(sent) /\ sent.op = d) => sent.success

\* C4: when the server refresh of forceRefreshAll fails for one route and
\* succeeds for another, the revalidation still runs for every key, the snapshot
\* of the succeeding key is filled again, and the result is success: false with
\* the error
C4_BatchNotAborted ==
  (/\ fr.fn = "forceRefreshAll" /\ fr.pc = "done"
   /\ \E e \in Datasets : fr.p2[e] = "failed"
   /\ \E e \in Datasets : fr.p2[e] = "ok")
    => /\ \A k \in keysOf(fr.fn) : fr.p3[k] = "done"
       /\ fr.p2["points"] = "ok" => snapshot[kPoints] # Undefined
       /\ fr.result.returned /\ ~fr.result.success /\ fr.result.error # Null

\* C5: no server refresh is requested before every local clear is done, no
\* revalidation is requested before every server refresh has returned, and the
\* local clear sends no request
C5_PhasesInOrder ==
  /\ []((\/ \E r \in BagToSet(reqs) : r.client.type = "fr"
         \/ \E e \in Datasets : fr.p2[e] # "-")
          => fr.cleared = keysOf(fr.fn))
  /\ []((\/ \E r \in BagToSet(reqs) : r.client.type = "mutate"
         \/ sent.client.type = "mutate"
         \/ \E k \in Subscribed : fr.p3[k] # "-")
          => \A e \in endpointsOf(fr.fn) : fr.p2[e] = "ok")
  /\ [][fr'.cleared # fr.cleared
          => /\ BagCardinality(reqs') = BagCardinality(reqs)
             /\ sent' = NoResp
             /\ cache' = cache]_vars

\* forceRefreshAll is in its third step: one key is revalidated, one is not yet
C5_Witness ==
  /\ fr.fn = "forceRefreshAll" /\ fr.pc = "revalidate"
  /\ fr.cleared = {kLive, kUpcoming, kPoints}
  /\ fr.p3[kPoints] = "done" /\ fr.p3[kLive] = "-"

C7_SuccessNeedsEveryRefresh ==
  /\ (fr.result.returned /\ fr.result.success)
       => \A e \in endpointsOf(fr.fn) : fr.p2[e] = "ok"
  /\ (\E e \in Datasets : fr.p2[e] = "failed")
       => fr.result.returned /\ ~fr.result.success /\ fr.result.error # Null
  /\ (sent.status # 0 /\ sent.client.type = "fr" /\ ~sent.success)
       => fr.result.returned /\ ~fr.result.success /\ fr.result.error # Null

\* forceRefreshAll has returned after one server refresh succeeded and the
\* other failed
C7_Witness ==
  /\ fr.fn = "forceRefreshAll" /\ fr.pc = "done"
  /\ fr.p2["points"] = "ok" /\ fr.p2["schedule"] = "failed"
  /\ sent.client = Tag("fr", "schedule") /\ ~sent.success
  /\ ~fr.result.success

\* C8: a forced read of /api/schedule, /api/points-table or /api/all removes the
\* key's record before anything else, always starts a scrape, and is never
\* answered with a record of the store
C8_ForcedBypassesCache ==
  /\ [][\A op \in Datasets :
          GetArrive(op, TRUE, Direct)
            => /\ cacheKey(op) \notin DOMAIN cache'
               /\ \E r \in BagToSet(reqs') : r.op = op /\ r.forced /\ Starts(r)
               /\ sent' = NoResp]_vars
  /\ [][AllArrive(TRUE, Direct)
          => /\ DOMAIN cache' = {}
             /\ \E r \in BagToSet(reqs') : r.op = "all" /\ r.forced /\ Starts(r)
             /\ sent' = NoResp]_vars
  /\ [](sent.forced => sent.source \notin {"cache", "stale-cache"})

\* a forced read that found a record when it arrived has been answered with
\* the failure of its scrape
C8_Witness ==
  /\ IsRead(sent) /\ sent.forced /\ sent.seen # {}
  /\ ~sent.success /\ sent.data = Null

\* C9: a non-forced read of a key whose record exists and has not expired
\* returns that record's payload with source "cache" and starts no scrape
C9_HitAvoidsFetch ==
  [][\A op \in Datasets :
       (GetArrive(op, FALSE, Direct) /\ has(cache, cacheKey(op)))
         => /\ sent'.status = 200 /\ sent'.success
            /\ sent'.source = "cache"
            /\ sent'.data = cache[cacheKey(op)].v.data
            /\ reqs' = reqs
            /\ cache' = cache]_vars

\* a read was answered from a record that had not expired, and nothing was started
C9_Witness ==
  /\ IsRead(sent) /\ sent.source = "cache" /\ sent.data = "B"
  /\ has(cache, cacheKey(sent.op))
  /\ BagCardinality(reqs) = 0

\* C10: a record stays in the store after its TTL has elapsed, until it is
\* explicitly invalidated (cache clear, forced read) or replaced by a write
C10_ExpiryKeeps ==
  [][\A d \in Datasets :
       (expired(cache, cacheKey(d)) /\ cacheKey(d) \notin DOMAIN cache')
         => \/ sent'.op = "cache/clear"
            \/ \E r \in BagToSet(reqs') : r.op = d /\ r.forced /\ Starts(r)]_vars

\* scheduled jobs that have not returned
CronJobs == LET S == {r \in BagToSet(reqs) : r.op = "cron"}
            IN  BagCardinality([r \in S |-> reqs[r]])

\* C11: at most one scheduled scrape job is running at any time: a tick that
\* fires while the previous job has not completed is skipped
C11_OneJobAtATime == CronJobs <= 1

FetcherStarts ==
  \E r \in BagToSet(reqs') : r.client.type \in {"poll", "mutate"} /\ Starts(r)

MatchesKeys == Subscribed \ {kPoints}

\* the last step answered a read of /api/matches whose call of the scraper
\* service had failed
MatchesReadFailed ==
  /\ sent.status # 0 /\ ~proxyOk(sent)
  /\ sent.client.type \in {"poll", "mutate"} /\ sent.client.key \in MatchesKeys

C15_FallbackOnlyAfterFailure ==
  [][\A k \in MatchesKeys :
       (snapshot'[k] \in Mocks /\ snapshot[k] \notin Mocks)
         => (sent'.status # 0 /\ ~proxyOk(sent') /\ sent'.client.key = k)]_vars

C17_SourceLabels ==
  (IsRead(sent) /\ sent.success)
    => /\ sent.source \in {"cache", "fresh", "stale-cache", "fallback"}
       /\ sent.source = "fresh"
            => /\ cacheKey(sent.op) \in DOMAIN cache
               /\ cache[cacheKey(sent.op)].v.data = sent.data

\* C18: the freshness class follows the age, now minus the timestamp of the
\* response: live data is fresh below 30 s, stale from 30 s to below 120 s, old
\* from 120 s; standings are fresh below 120 s, stale from 120 s to below
\* 300 s, old from 300 s; without a timestamp the class is old
C18_FreshnessByAge ==
  LET liveAge == view.now - view.liveTs
      pointsAge == view.now - view.pointsTs
  IN  /\ view.memo.live = "fresh" <=> liveAge < 30
      /\ view.memo.live = "stale" <=> (30 <= liveAge /\ liveAge < 120)
      /\ view.memo.live = "old" <=> 120 <= liveAge
      /\ view.memo.points = "fresh" <=> pointsAge < 120
      /\ view.memo.points = "stale" <=> (120 <= pointsAge /\ pointsAge < 300)
      /\ view.memo.points = "old" <=> 300 <= pointsAge
      /\ view.liveTs = 0 => view.memo.live = "old"
      /\ view.pointsTs = 0 => view.memo.points = "old"

NavDone == nav.pc \in {"returned", "thrown"}

C20_TimeoutIsFailure ==
  /\ nav.failed = nav.config.retries - nav.left \/ nav.pc = "idle"
  /\ nav.elapsed <= nav.attempts * DEFAULT_CONFIG.timeout
                      + Len(nav.delays) * DEFAULT_CONFIG.delay
  /\ nav.dangling <= nav.failed
  /\ (nav.pc = "returned" /\ nav.attempts > 0)
       => nav.last = "resolved" /\ nav.failed < nav.attempts

\* an attempt timed out, the call went on to its next attempt, and the
\* navigation that timed out has settled since
C20_Witness ==
  /\ nav.last = "timeout" /\ nav.pc = "goto" /\ nav.attempts = 2
  /\ nav.dangling = 0

\* the scrape that settles in this step has failed
Failure == [ok |-> FALSE, data |-> Null]

\* the step writes no record under the key: the record is as it was, or gone
NotWritten(k) ==
  k \in DOMAIN cache' => (k \in DOMAIN cache /\ cache'[k] = cache[k])

\* C21: a handler whose scrape of a dataset has returned success=false makes
\* no cache write under the key of that dataset: the GET handlers, POST
\* /api/scrape, the scheduled job and the startup scrape
C21_FailedScrapeWritesNothing ==
  [][\A r \in BagToSet(reqs) :
       /\ (GetDone(r, Failure) \/ PostDone(r, Failure))
            => NotWritten(cacheKey(r.phase))
       /\ (AllDone(r, Failure) \/ PostAllDone(r, Failure) \/ JobDone(r, Failure))
            => NotWritten("points-table-data")
       /\ \A o \in Outcomes :
            (~r.sres.success /\ (AllDone(r, o) \/ PostAllDone(r, o) \/ JobDone(r, o)))
              => NotWritten("schedule-data")]_vars

\* a run of scrapeAll got the schedule but not the points table: the combined
\* record says so, and no record of the points table was written
C21_Witness ==
  /\ "combined-data" \in DOMAIN cache
  /\ cache["combined-data"].v.schedule.success
  /\ ~cache["combined-data"].v.pointsTable.success
  /\ "schedule-data" \in DOMAIN cache
  /\ "points-table-data" \notin DOMAIN cache

\* C22: under every interleaving of reads, manual scrapes and scheduled jobs,
\* the timestamp of the record under a key never decreases: no write replaces
\* a record by one with an older timestamp
C22_TimestampsNeverDecrease ==
  [][\A k \in Keys :
       (clock.stamp[k] # 0 /\ clock'.stamp[k] # 0)
         => clock'.stamp[k] >= clock.stamp[k]]_vars

\* C23: whenever 'combined-data' and the record of a dataset are both in the
\* store, the payload of the dataset inside the combined record is the payload
\* of the dataset's own record
C23_CombinedMatchesSingle ==
  "combined-data" \in DOMAIN cache
    => /\ "schedule-data" \in DOMAIN cache
            => cache["combined-data"].v.schedule.data = cache["schedule-data"].v.data
       /\ "points-table-data" \in DOMAIN cache
            => cache["combined-data"].v.pointsTable.data
                 = cache["points-table-data"].v.data

\* C24: POST /api/scrape never removes a record: when its scrape fails every
\* record is afterwards what it was before, so a non-forced GET is served as
\* before; when it succeeds the record of the scraped dataset holds the new
\* data
C24_ManualScrapeKeepsRecords ==
  [][/\ \A type \in {"schedule", "points", "all"} :
          PostArrive(type, Direct) => cache' = cache
     /\ \A r \in BagToSet(reqs), o \in Outcomes :
          /\ PostDone(r, o)
               => /\ DOMAIN cache \subseteq DOMAIN cache'
                  /\ ~o.ok => cache' = cache
                  /\ o.ok => /\ has(cache', cacheKey(r.arg))
                             /\ cache'[cacheKey(r.arg)].v.data = o.data
                             /\ \A k \in DOMAIN cache \ {cacheKey(r.arg)} :
                                  cache'[k] = cache[k]
          /\ PostAllDone(r, o)
               => /\ DOMAIN cache \subseteq DOMAIN cache'
                  /\ (~o.ok /\ ~r.sres.success) => cache' = cache
                  /\ o.ok => /\ has(cache', "points-table-data")
                             /\ cache'["points-table-data"].v.data = o.data
                  /\ r.sres.success
                       => /\ has(cache', "schedule-data")
                          /\ cache'["schedule-data"].v.data = r.sres.data]_vars

\* a manual scrape has just failed, and the record of the points table that
\* was in the store is still there
C24_Witness ==
  /\ sent.op = "post" /\ sent.status = 200 /\ ~sent.success
  /\ sent.source = "scraping"
  /\ has(cache, "points-table-data")

\* C25: forceRefreshAll covers every key useLiveIPL subscribes to: once its
\* phase 1 is over each of the four keys has been cleared, and when it has
\* returned success each of the four keys has been revalidated
C25_RefreshAllCoversKeys ==
  fr.fn = "forceRefreshAll"
    => /\ fr.pc \in {"server", "revalidate"} => Subscribed \subseteq fr.cleared
       /\ (fr.pc = "done" /\ fr.result.success)
            => \A k \in Subscribed : fr.p3[k] = "done"

\* C26: navigateWithRetry returns normally only if one navigation attempt
\* succeeded, whatever config.retries is: a call that has returned has made
\* an attempt and its last attempt resolved
C26_ReturnsOnlyAfterSuccess ==
  nav.pc = "returned" => nav.attempts > 0 /\ nav.last = "resolved"

\* the message of the failure that each step of a scraper can end in
Messages == {"Failed to launch the browser process",
             "Protocol error (Target.createTarget)", "Failed to navigate",
             "Points table not found on the page", "Evaluation failed"}

\* C27 as stated: at the return of a scraper a browser that was launched is
\* closed
C27_BrowserClosedAtReturn ==
  (scraper.pc = "returned" /\ scraper.browser # "none")
    => scraper.browser = "closed"

\* C27: scrapeSchedule and scrapePointsTable never throw: every failure is
\* returned as a result with success false, data null and the message of the
\* error, and on every path browser.close() has been called once on a browser
\* that was launched before the function returns
C27_ScraperNeverThrows ==
  /\ scraper.pc # "thrown"
  /\ scraper.pc = "returned"
       => /\ \/ scraper.result.success /\ scraper.result.data \in upstream.vals
                  /\ scraper.result.error = Null
             \/ ~scraper.result.success /\ scraper.result.data = Null
                  /\ scraper.result.error \in Messages
          /\ scraper.closes = (IF scraper.browser = "none" THEN 0 ELSE 1)
          /\ scraper.browser = "none"
               => scraper.result.error = "Failed to launch the browser process"
  /\ scraper.pc \notin {"finally", "returned"} => scraper.closes = 0

\* the navigation was exhausted, the failure was returned, and browser.close()
\* of the browser that was launched has rejected
C27_Witness ==
  /\ scraper.pc = "returned" /\ scraper.result.error = "Failed to navigate"
  /\ scraper.browser = "open" /\ scraper.closes = 1

\* C28: scrapeAll always runs both scrapers, schedule first and points table
\* second, also when the first one fails; its success is true exactly when
\* at least one of the two succeeded, and its errors list has exactly one
\* entry per failed scraper
C28_ScrapeAllRunsBoth ==
  /\ run.pc = "schedule" => run.calls = <<"scrapeSchedule">>
  /\ run.pc \in {"points", "returned"}
       => run.calls = <<"scrapeSchedule", "scrapePointsTable">>
  /\ run.pc = "returned"
       => LET a == run.results.schedule
              b == run.results.pointsTable
          IN  /\ a = run.sres /\ b = scraper.result
              /\ run.results.success <=> (a.success \/ b.success)
              /\ Len(run.results.errors)
                   = (IF a.success THEN 0 ELSE 1) + (IF b.success THEN 0 ELSE 1)
              /\ a.success <=> \A i \in DOMAIN run.results.errors :
                                  run.results.errors[i] # "schedule"
              /\ b.success <=> \A i \in DOMAIN run.results.errors :
                                  run.results.errors[i] # "points"

\* scrapeSchedule failed, scrapePointsTable ran all the same and succeeded
C28_Witness ==
  /\ run.pc = "returned" /\ ~run.results.schedule.success
  /\ run.results.pointsTable.success /\ run.results.success
  /\ run.results.errors = <<"schedule">>

\* C29: the server-side fetchers never throw, getDashboardData never rejects,
\* and it does not return a non-null object whose four parts are all null:
\* when no part could be fetched it returns null
C29_NullWhenNothingFetched ==
  (ssr.pc \in {"returned", "rendered"} /\ \A p \in Parts : ssr.parts[p] = Null)
    => ssr.result.isNull

\* the number of the three status filters a match passes at a given hour
statuses(m, now) ==
  Cardinality({st \in {"live", "upcoming", "completed"} : hasStatus(m, st, now)})

\* C30: the status filters of GET /api/matches partition the matches: every
\* match of the schedule passes exactly one of live, upcoming and completed
\* at the time of the request; and in the summary completedMatches +
\* upcomingMatches = totalMatches with liveMatches <= upcomingMatches
C30_StatusPartition ==
  listing.pc = "answered"
    => /\ \A i \in DOMAIN listing.schedule :
            statuses(listing.schedule[i], listing.now) = 1
       /\ listing.summary.completedMatches + listing.summary.upcomingMatches
            = listing.summary.totalMatches
       /\ listing.summary.liveMatches <= listing.summary.upcomingMatches

====
